---- MODULE Spec2Model ----
(***************************************************************************)
(* Model of validate.py, the addon-repository validator.                   *)
(*                                                                         *)
(* JSON values are modelled by what the code can observe of them: their    *)
(* Python type (dict, list, str, other), their truthiness, the result of   *)
(* the "in" operator, and, for strings, their characters.  An operation    *)
(* that Python rejects (a TypeError or AttributeError that no handler      *)
(* catches) ends the run with an uncaught exception: exit status 1, a      *)
(* traceback on stderr, and nothing printed by error().                    *)
(***************************************************************************)
EXTENDS Integers, Sequences, FiniteSets, TLC

VARIABLES
    pc,        \* where the run is: "start", "loop", "exited" ("call", "returned")
    core_ver,  \* args.core_version
    version,   \* TRUE when packaging.version was imported, FALSE when it is None
    index,     \* addons.json as the run found it
    db,        \* what validate_addons_json returned: None (ok = FALSE) or the document
    i,         \* position of the loop in db["addons"], from 1
    success,   \* the success flag of main
    out,       \* the error annotations printed so far, in order
    summary,   \* the summary line printed, "" if none
    exitCode,  \* the exit status, -1 while the process runs
    crashed,   \* the run ended with an uncaught exception
    trace,     \* the entries the loop body ran for, with the outcome of each
    addon,     \* the directory last given to validate_addon_directory
    res        \* what that invocation did

vars == <<pc, core_ver, version, index, db, i, success, out, summary, exitCode,
          crashed, trace, addon, res>>

(***************************************************************************)
(* Bounds                                                                  *)
(***************************************************************************)
MaxAddons == 2

MaxDomainLen == 2

MaxVerLen == 3

SeqsUpTo(S, n) == UNION {[1..k -> S] : k \in 0..n}

(***************************************************************************)
(* Strings.  A string is a sequence of characters.                         *)
(***************************************************************************)
\* characters of a domain value: an ASCII letter, an ASCII digit, the
\* underscore, a punctuation character, and a non-ASCII letter (e-acute)
DomChars == {"a", "1", "_", "-", "U+00E9"}

\* characters of a version string
VerChars == {"0", "1", "."}

Digits == {"0", "1", "2", "3", "4", "5", "6", "7", "8", "9"}

\* Unicode XID_Start / XID_Continue, restricted to DomChars
XidStart == {"a", "U+00E9"}

XidContinue == {"a", "U+00E9", "1", "_"}

\* str.isidentifier(): first character XID_Start or "_", the others
\* XID_Continue; the empty string is not an identifier
IsIdentifier(s) ==
    /\ Len(s) > 0
    /\ s[1] \in XidStart \cup {"_"}
    /\ \A k \in 2..Len(s) : s[k] \in XidContinue

(***************************************************************************)
(* packaging.version.parse and the comparison of two parsed versions, on   *)
(* strings of digits and dots: a release is one or more non-empty runs of  *)
(* digits separated by single dots; anything else raises InvalidVersion.   *)
(* Versions compare by their release tuple with trailing zeros dropped.    *)
(***************************************************************************)
RECURSIVE SplitDots(_, _, _)
SplitDots(s, cur, acc) ==
    IF s = <<>> THEN Append(acc, cur)
    ELSE IF Head(s) = "." THEN SplitDots(Tail(s), <<>>, Append(acc, cur))
    ELSE SplitDots(Tail(s), Append(cur, Head(s)), acc)

DigitVal(c) ==
    CASE c = "0" -> 0 [] c = "1" -> 1 [] c = "2" -> 2 [] c = "3" -> 3
      [] c = "4" -> 4 [] c = "5" -> 5 [] c = "6" -> 6 [] c = "7" -> 7
      [] c = "8" -> 8 [] OTHER -> 9

RECURSIVE IntOf(_)
IntOf(seg) ==
    IF seg = <<>> THEN 0
    ELSE IntOf(SubSeq(seg, 1, Len(seg) - 1)) * 10 + DigitVal(seg[Len(seg)])

IsDigitRun(seg) == Len(seg) > 0 /\ \A k \in 1..Len(seg) : seg[k] \in Digits

RECURSIVE DropTrailingZeros(_)
DropTrailingZeros(rel) ==
    IF rel # <<>> /\ rel[Len(rel)] = 0
    THEN DropTrailingZeros(SubSeq(rel, 1, Len(rel) - 1))
    ELSE rel

\* version.parse(s): ok = FALSE stands for the InvalidVersion exception
VersionParse(s) ==
    LET segs == SplitDots(s, <<>>, <<>>)
    IN  IF \A k \in 1..Len(segs) : IsDigitRun(segs[k])
        THEN [ok |-> TRUE,
              release |-> DropTrailingZeros([k \in 1..Len(segs) |-> IntOf(segs[k])])]
        ELSE [ok |-> FALSE, release |-> <<>>]

\* Python's tuple comparison a > b
RECURSIVE TupleGreater(_, _)
TupleGreater(a, b) ==
    IF a = <<>> THEN FALSE
    ELSE IF b = <<>> THEN TRUE
    ELSE IF Head(a) # Head(b) THEN Head(a) > Head(b)
    ELSE TupleGreater(Tail(a), Tail(b))

(***************************************************************************)
(* Values of the manifest fields the code reads, and of --core-version.    *)
(*   k = "absent"  the key is absent (dict.get gives None), or JSON null   *)
(*   k = "nonstr"  a truthy value that is not a string (a number, true)    *)
(*   k = "str"     a string, s its characters                              *)
(***************************************************************************)
Absent == [k |-> "absent", s |-> <<>>]

NonStr == [k |-> "nonstr", s |-> <<>>]

Str(s) == [k |-> "str", s |-> s]

\* Python truthiness of such a value: None and "" are falsy
Truthy(v) == v.k = "nonstr" \/ (v.k = "str" /\ v.s # <<>>)

(***************************************************************************)
(* error(message, file=...): one "::error file=...::message" annotation on *)
(* stdout and one "ERROR: message" line on stderr.  cls names the call     *)
(* site (the message), file the location passed, field the field named in  *)
(* the message of a missing-field error.                                   *)
(***************************************************************************)
error(cls, file, field) == [cls |-> cls, file |-> file, field |-> field]

(***************************************************************************)
(* The state of one addon directory on disk, as validate_addon_directory   *)
(* reads it.                                                               *)
(*   isdir     os.path.isdir(addon_path)                                   *)
(*   mfile     manifest.json: "missing", "isdir" (it exists but is a       *)
(*             directory), "badjson" (not valid JSON) or "ok"              *)
(*   manifest  the parsed document when mfile = "ok":                      *)
(*     t    "obj" (dict), "list", "str", or "scalar" (number, bool, null)  *)
(*     has  the required fields f for which Python's  f in manifest  is    *)
(*          true (keys of a dict, members of a list, substrings of a str)  *)
(*     domain, implementations, min_core_version: the values of a dict     *)
(*   files     the files present in the directory                          *)
(***************************************************************************)
required_manifest_fields == <<"domain", "name", "version">>

RequiredSet == {"domain", "name", "version"}

FileNames == {"integration.py", "main.go"}

Langs == {"python", "go"}

\* implementations: k = "absent" (no key, or null), "falsy" (a falsy value
\* that is not a dict: [], "", 0, false), "emptydict" ({}), "nondict" (a
\* truthy value that is not a dict) or "dict" (a non-empty dict, entries in
\* document order; isstr tells whether the entry's value is a string)
Impl(k, entries) == [k |-> k, entries |-> entries]

ImplEntry(lang, isstr, filename) == [lang |-> lang, isstr |-> isstr, filename |-> filename]

Manifest(t, has, d, im, mv) ==
    [t |-> t, has |-> has, domain |-> d, implementations |-> im, min_core_version |-> mv]

NoManifest == Manifest("scalar", {}, Absent, Impl("absent", <<>>), Absent)

AddonDir(isdir, mfile, m, files) ==
    [isdir |-> isdir, mfile |-> mfile, manifest |-> m, files |-> files]

NoDir == AddonDir(FALSE, "missing", NoManifest, {})

(***************************************************************************)
(* validate_addon_directory                                                *)
(***************************************************************************)
AllChecks ==
    <<"directory", "manifest", "parse", "fields", "domain", "implementations", "core_version">>

\* ret: "True", "False", or "raise" (an exception left the function);
\* errs: the error() calls made, in order; checks: the checks evaluated
Result(ret, errs, n) == [ret |-> ret, errs |-> errs, checks |-> SubSeq(AllChecks, 1, n)]

NoResult == [ret |-> "none", errs |-> <<>>, checks |-> <<>>]

\* the loop over required_manifest_fields: the first field not in manifest
RECURSIVE FirstMissing(_, _)
FirstMissing(fields, has) ==
    IF fields = <<>> THEN ""
    ELSE IF Head(fields) \notin has THEN Head(fields)
    ELSE FirstMissing(Tail(fields), has)

\* the loop over implementations.items()
RECURSIVE CheckEntries(_, _)
CheckEntries(entries, files) ==
    IF entries = <<>> THEN [ret |-> "True", errs |-> <<>>]
    ELSE IF ~Head(entries).isstr THEN [ret |-> "raise", errs |-> <<>>]
    ELSE IF Head(entries).filename \notin files
         THEN [ret |-> "False",
               errs |-> <<error("MissingImplementationFile", "file_path", Head(entries).lang)>>]
    ELSE CheckEntries(Tail(entries), files)

CheckImplementations(implementations, files) ==
    IF implementations.k # "dict" /\ "integration.py" \notin files
    THEN [ret |-> "False", errs |-> <<error("MissingImplementations", "manifest_path", "")>>]
    ELSE IF implementations.k = "nondict" THEN [ret |-> "raise", errs |-> <<>>]
    ELSE IF implementations.k = "dict" THEN CheckEntries(implementations.entries, files)
    ELSE [ret |-> "True", errs |-> <<>>]

\* version.parse(v) returns: v is a string that parses
Parses(v) == v.k = "str" /\ VersionParse(v.s).ok

\* the order of the characters of a version string in Python's str comparison
CharRank(c) == CASE c = "." -> 46 [] OTHER -> 48 + DigitVal(c)

\* the check with the two strings compared as text, not as versions
CheckCoreVersionAsText(min_ver, core_version, lib) ==
    IF Truthy(min_ver) /\ Truthy(core_version) /\ lib
    THEN IF min_ver.k # "str"
         THEN [ret |-> "False", errs |-> <<error("VersionParseError", "manifest_path", "")>>]
         ELSE IF TupleGreater([k \in 1..Len(min_ver.s) |-> CharRank(min_ver.s[k])],
                              [k \in 1..Len(core_version.s) |-> CharRank(core_version.s[k])])
         THEN [ret |-> "False", errs |-> <<error("IncompatibleCoreVersion", "manifest_path", "")>>]
         ELSE [ret |-> "True", errs |-> <<>>]
    ELSE [ret |-> "True", errs |-> <<>>]

CheckCoreVersion(min_ver, core_version, lib) ==
    IF Truthy(min_ver) /\ Truthy(core_version) /\ lib
    THEN IF ~Parses(min_ver) \/ ~Parses(core_version)
         THEN [ret |-> "False", errs |-> <<error("VersionParseError", "manifest_path", "")>>]
         ELSE IF TupleGreater(VersionParse(min_ver.s).release, VersionParse(core_version.s).release)
         THEN [ret |-> "False", errs |-> <<error("IncompatibleCoreVersion", "manifest_path", "")>>]
         ELSE [ret |-> "True", errs |-> <<>>]
    ELSE [ret |-> "True", errs |-> <<>>]

ValidateAddonDirectory(addon_id, a, core_version, lib) ==
    IF addon_id # "str" THEN Result("raise", <<>>, 0)
    ELSE IF ~a.isdir
    THEN Result("False", <<error("MissingDirectory", "addon_path", "")>>, 1)
    ELSE IF a.mfile = "missing"
    THEN Result("False", <<error("MissingManifest", "manifest_path", "")>>, 2)
    ELSE IF a.mfile = "isdir" THEN Result("raise", <<>>, 3)
    ELSE IF a.mfile = "badjson"
    THEN Result("False", <<error("ManifestParseError", "manifest_path", "")>>, 3)
    ELSE LET m == a.manifest
             missing == FirstMissing(required_manifest_fields, m.has)
         IN  IF m.t = "scalar" THEN Result("raise", <<>>, 4)
             ELSE IF missing # ""
             THEN Result("False", <<error("MissingField", "manifest_path", missing)>>, 4)
             ELSE IF m.t # "obj" THEN Result("raise", <<>>, 5)
             ELSE IF m.domain.k # "str" THEN Result("raise", <<>>, 5)
             ELSE IF ~IsIdentifier(m.domain.s)
             THEN Result("False", <<error("InvalidDomain", "manifest_path", "")>>, 5)
             ELSE LET im == CheckImplementations(m.implementations, a.files)
                  IN  IF im.ret # "True" THEN Result(im.ret, im.errs, 6)
                      ELSE LET cv == CheckCoreVersion(m.min_core_version, core_version, lib)
                           IN  Result(cv.ret, cv.errs, 7)

(***************************************************************************)
(* addons.json, as validate_addons_json reads it.                          *)
(*   st    "missing", "isdir" (exists but is a directory), "badjson", "ok" *)
(*   data  the parsed document when st = "ok":                             *)
(*     t          "obj", "list", "str" or "scalar"                         *)
(*     hasAddons  the value of  "addons" in data  (for a container)        *)
(*     isList     data["addons"] is a list (for a dict with that key)      *)
(*     addons     the entries of that list                                 *)
(* An entry of the list is a dict or not; a dict's "id" is "None" (absent  *)
(* or null), "empty" (the string ""), "int" (a number) or "str".           *)
(***************************************************************************)
Entry(isdict, id) == [isdict |-> isdict, id |-> id]

Entries ==
    {Entry(FALSE, "None"), Entry(TRUE, "None"), Entry(TRUE, "empty"),
     Entry(TRUE, "int"), Entry(TRUE, "str")}

Data(t, hasAddons, isList, addons) ==
    [t |-> t, hasAddons |-> hasAddons, isList |-> isList, addons |-> addons]

IndexFile(st, data) == [st |-> st, data |-> data]

NoData == Data("scalar", FALSE, FALSE, <<>>)

\* the two kinds of value of db in main
None == [ok |-> FALSE, addons |-> <<>>]

Document(addons) == [ok |-> TRUE, addons |-> addons]

IndexFiles ==
    {IndexFile(st, NoData) : st \in {"missing", "isdir", "badjson"}}
    \cup {IndexFile("ok", Data(t, h, FALSE, <<>>)) : t \in {"scalar", "list", "str"}, h \in BOOLEAN}
    \cup {IndexFile("ok", Data("obj", FALSE, FALSE, <<>>)),
          IndexFile("ok", Data("obj", TRUE, FALSE, <<>>))}
    \cup {IndexFile("ok", Data("obj", TRUE, TRUE, es)) : es \in SeqsUpTo(Entries, MaxAddons)}

\* ret: "data" (the document is returned), "None", or "raise"
validate_addons_json(f) ==
    IF f.st = "missing"
    THEN [ret |-> "None", errs |-> <<error("MissingFile", "json_path", "")>>]
    ELSE IF f.st = "isdir" THEN [ret |-> "raise", errs |-> <<>>]
    ELSE IF f.st = "badjson"
    THEN [ret |-> "None", errs |-> <<error("ParseError", "json_path", "")>>]
    ELSE IF f.data.t = "scalar" THEN [ret |-> "raise", errs |-> <<>>]
    ELSE IF ~f.data.hasAddons
    THEN [ret |-> "None", errs |-> <<error("SchemaError", "json_path", "")>>]
    ELSE IF f.data.t # "obj" THEN [ret |-> "raise", errs |-> <<>>]
    ELSE IF ~f.data.isList
    THEN [ret |-> "None", errs |-> <<error("SchemaError", "json_path", "")>>]
    ELSE [ret |-> "data", errs |-> <<>>]

(***************************************************************************)
(* The addon directories and arguments the runs are checked on.            *)
(***************************************************************************)
FileSets == SUBSET FileNames

DomainStrings == SeqsUpTo(DomChars, MaxDomainLen)

VersionStrings == SeqsUpTo(VerChars, MaxVerLen)

\* the values a present "domain" key can have: null, a number, a string
DomainValues == {Absent, NonStr} \cup {Str(s) : s \in DomainStrings}

MinVerValues == {Absent, NonStr} \cup {Str(s) : s \in VersionStrings}

CoreValues == {Absent} \cup {Str(s) : s \in VersionStrings}

FileValues == {<<TRUE, f>> : f \in FileNames} \cup {<<FALSE, "">>}

ImplDicts ==
    {<<ImplEntry(l, v[1], v[2])>> : l \in Langs, v \in FileValues}
    \cup {<<ImplEntry(ls[1], v1[1], v1[2]), ImplEntry(ls[2], v2[1], v2[2])>> :
             ls \in {p \in Langs \X Langs : p[1] # p[2]}, v1 \in FileValues, v2 \in FileValues}

ImplValues ==
    {Impl(k, <<>>) : k \in {"absent", "falsy", "emptydict", "nondict"}}
    \cup {Impl("dict", es) : es \in ImplDicts}

\* dict manifests with the given choice of field values; a key that is not
\* in the dict has no value
ObjManifests(Hs, Ds, Is, Vs) ==
    {Manifest("obj", has, d, im, mv) :
        has \in Hs, d \in Ds, im \in Is, mv \in Vs}

WellKeyed(m) == "domain" \in m.has \/ m.domain = Absent

\* directories without a readable dict manifest
BrokenDirs ==
    {NoDir}
    \cup {AddonDir(TRUE, mf, NoManifest, fs) :
             mf \in {"missing", "isdir", "badjson"}, fs \in FileSets}
    \cup {AddonDir(TRUE, "ok", Manifest(t, has, Absent, Impl("absent", <<>>), Absent), fs) :
             t \in {"scalar", "list", "str"}, has \in {{}, {"name"}, RequiredSet}, fs \in FileSets}

Dirs(Ms, Fs) == {AddonDir(TRUE, "ok", m, fs) : m \in {x \in Ms : WellKeyed(x)}, fs \in Fs}

GoodDomain == Str(<<"a">>)

BadDomain == Str(<<"1">>)

OneDict == Impl("dict", <<ImplEntry("go", TRUE, "main.go")>>)

V1 == Str(<<"1">>)

\* every domain value, against a few implementations and versions
DomainDirs ==
    Dirs(ObjManifests(SUBSET RequiredSet, DomainValues, {Impl("absent", <<>>), OneDict}, {Absent, V1}),
         {{}, FileNames})

\* every implementations value, against every set of files
ImplDirs ==
    Dirs(ObjManifests({RequiredSet, {"domain", "name"}}, {GoodDomain, BadDomain}, ImplValues, {Absent, V1}), FileSets)

\* every min_core_version value
VersionDirs ==
    Dirs(ObjManifests({RequiredSet}, {GoodDomain}, {Impl("absent", <<>>)}, MinVerValues),
         {{}, {"integration.py"}})

Args(dirs, cores, libs) ==
    {[addon |-> a, core_ver |-> c, version |-> l] : a \in dirs, c \in cores, l \in libs}

\* the invocations of validate_addon_directory that are checked
UnitArgs ==
    Args(BrokenDirs \cup DomainDirs \cup ImplDirs, {Absent, Str(<<"0">>)}, {TRUE})
    \cup Args(VersionDirs, CoreValues, BOOLEAN)

\* the directories a whole run can meet
MainDirs ==
    {NoDir, AddonDir(TRUE, "ok", NoManifest, {})}
    \cup Dirs(ObjManifests({RequiredSet, {"domain", "version"}}, {GoodDomain, BadDomain},
                           {Impl("absent", <<>>)},
                           {Absent, V1, Str(<<".">>)}),
              {{"integration.py"}})

MainCores == {Absent, Str(<<>>), Str(<<"0">>), Str(<<"1">>)}

(***************************************************************************)
(* main                                                                    *)
(***************************************************************************)
Init ==
    /\ pc = "start"
    /\ core_ver \in MainCores
    /\ version \in BOOLEAN
    /\ index = IndexFile("missing", NoData)
    /\ db = None
    /\ i = 1
    /\ success = TRUE
    /\ out = <<>>
    /\ summary = ""
    /\ exitCode = -1
    /\ crashed = FALSE
    /\ trace = <<>>
    /\ addon = NoDir
    /\ res = NoResult

\* an exception no handler catches: traceback, exit status 1
Crash ==
    /\ pc' = "exited"
    /\ crashed' = TRUE
    /\ exitCode' = 1

\* db = validate_addons_json(repo_path); if not db: sys.exit(1); success = True
LoadIndex ==
    /\ pc = "start"
    /\ \E f \in IndexFiles :
         LET r == validate_addons_json(f)
         IN  /\ index' = f
             /\ out' = out \o r.errs
             /\ IF r.ret = "raise"
                THEN Crash /\ UNCHANGED db
                ELSE IF r.ret = "None"
                THEN /\ pc' = "exited"
                     /\ exitCode' = 1
                     /\ UNCHANGED <<crashed, db>>
                ELSE /\ pc' = "loop"
                     /\ db' = Document(f.data.addons)
                     /\ UNCHANGED <<crashed, exitCode>>
    /\ i' = 1
    /\ success' = TRUE
    /\ UNCHANGED <<core_ver, version, summary, trace, addon, res>>

\* one iteration of  for i, addon in enumerate(db["addons"])
ProcessEntry ==
    /\ pc = "loop"
    /\ i <= Len(db.addons)
    /\ IF ~db.addons[i].isdict
       THEN /\ Crash
            /\ trace' = Append(trace, [idx |-> i, ret |-> "raise"])
            /\ UNCHANGED <<out, success, i, addon, res>>
       ELSE IF db.addons[i].id \in {"None", "empty"}
       THEN /\ out' = Append(out, error("MissingId", "json_path", ""))
            /\ success' = FALSE
            /\ i' = i + 1
            /\ trace' = Append(trace, [idx |-> i, ret |-> "noid"])
            /\ UNCHANGED <<pc, crashed, exitCode, addon, res>>
       ELSE \E a \in (IF db.addons[i].id = "str" THEN MainDirs ELSE {addon}) :
              LET r == ValidateAddonDirectory(db.addons[i].id, a, core_ver, version)
              IN  /\ addon' = a
                  /\ res' = r
                  /\ out' = out \o r.errs
                  /\ trace' = Append(trace, [idx |-> i, ret |-> r.ret])
                  /\ IF r.ret = "raise"
                     THEN Crash /\ UNCHANGED <<success, i>>
                     ELSE /\ success' = (success /\ r.ret = "True")
                          /\ i' = i + 1
                          /\ UNCHANGED <<pc, crashed, exitCode>>
    /\ UNCHANGED <<core_ver, version, index, db, summary>>

\* after the loop: the summary line and sys.exit
Finish ==
    /\ pc = "loop"
    /\ i > Len(db.addons)
    /\ pc' = "exited"
    /\ IF success
       THEN summary' = "Validation SUCCESSFUL." /\ exitCode' = 0
       ELSE summary' = "Validation FAILED." /\ exitCode' = 1
    /\ UNCHANGED <<core_ver, version, index, db, i, success, out, crashed, trace, addon, res>>

Next == LoadIndex \/ ProcessEntry \/ Finish

Spec == Init /\ [][Next]_vars

(***************************************************************************)
(* validate_addon_directory on its own: one invocation per behaviour.      *)
(***************************************************************************)
InitUnit ==
    /\ pc = "call"
    /\ \E x \in UnitArgs :
         /\ addon = x.addon
         /\ core_ver = x.core_ver
         /\ version = x.version
    /\ index = IndexFile("missing", NoData)
    /\ db = None
    /\ i = 1
    /\ success = TRUE
    /\ out = <<>>
    /\ summary = ""
    /\ exitCode = -1
    /\ crashed = FALSE
    /\ trace = <<>>
    /\ res = NoResult

CallValidate ==
    /\ pc = "call"
    /\ res' = ValidateAddonDirectory("str", addon, core_ver, version)
    /\ out' = out \o res'.errs
    /\ pc' = "returned"
    /\ UNCHANGED <<core_ver, version, index, db, i, success, summary, exitCode, crashed, trace, addon>>

NextUnit == CallValidate

SpecUnit == InitUnit /\ [][NextUnit]_vars

(***************************************************************************)
(* Properties                                                              *)
(***************************************************************************)
Exited == pc = "exited"

Returned == pc = "returned"

\* the entries the loop body ran for that were reported as failing
Failed(k) == trace[k].ret \in {"False", "noid"}

AllPassed ==
    /\ Len(trace) = Len(db.addons)
    /\ \A k \in 1..Len(trace) : trace[k].ret = "True"

\* C1: a run ends with exit code 0 exactly when the index loaded and every
\* addon listed in it passed, and with exit code 1 otherwise; the summary
\* line is "Validation SUCCESSFUL." on exit 0 and "Validation FAILED." when
\* an addon failed.
C1_ExitCodeAndSummary ==
    Exited =>
        /\ exitCode \in {0, 1}
        /\ exitCode = 0 <=> (db.ok /\ AllPassed)
        /\ exitCode = 0 => summary = "Validation SUCCESSFUL."
        /\ (\E k \in 1..Len(trace) : Failed(k)) => summary = "Validation FAILED."

\* C2: a run that ends with a non-zero exit code has printed at least one
\* error annotation, each with a file location and a message.
C2_NeverSilent ==
    (Exited /\ exitCode # 0) =>
        /\ Len(out) >= 1
        /\ \A k \in 1..Len(out) : out[k].file # "" /\ out[k].cls # ""

\* addons.json is missing, is not valid JSON, or is not an object with a
\* list-typed "addons" field
IndexInvalid(f) ==
    \/ f.st \in {"missing", "badjson"}
    \/ f.st = "ok" /\ ~(f.data.t = "obj" /\ f.data.hasAddons /\ f.data.isList)

\* C3: when addons.json is missing, invalid JSON or not an object with a
\* list-typed "addons" field, exactly one error is printed, no document is
\* returned, and main exits 1 at once, validating no addon.
C3_IndexErrorsFatal ==
    (pc # "start" /\ IndexInvalid(index)) =>
        /\ Exited
        /\ exitCode = 1
        /\ ~db.ok
        /\ trace = <<>>
        /\ Len(out) = 1
        /\ out[1].cls \in {"MissingFile", "ParseError", "SchemaError"}

\* C4: once the index has loaded, a run processes every entry of the list
\* exactly once, in index order, whatever happened to earlier entries, and
\* exits 1 when an entry failed.
C4_EveryEntryProcessed ==
    (Exited /\ db.ok) =>
        /\ Len(trace) = Len(db.addons)
        /\ \A k \in 1..Len(trace) : trace[k].idx = k
        /\ (\E k \in 1..Len(trace) : trace[k].ret # "True") => exitCode = 1

\* the check that prints an error of class cls
CheckOf(cls) ==
    CASE cls = "MissingDirectory" -> "directory"
      [] cls = "MissingManifest" -> "manifest"
      [] cls = "ManifestParseError" -> "parse"
      [] cls = "MissingField" -> "fields"
      [] cls = "InvalidDomain" -> "domain"
      [] cls \in {"MissingImplementations", "MissingImplementationFile"} -> "implementations"
      [] cls \in {"IncompatibleCoreVersion", "VersionParseError"} -> "core_version"
      [] OTHER -> ""

\* C5: an invocation of validate_addon_directory prints at most one error,
\* returns False exactly when it printed one and True exactly when it
\* printed none, and evaluates no check after the failing one.
C5_FailFast ==
    Returned =>
        /\ Len(res.errs) <= 1
        /\ res.ret = "False" <=> Len(res.errs) = 1
        /\ res.ret = "True" <=> Len(res.errs) = 0
        /\ Len(res.errs) = 1 => res.checks[Len(res.checks)] = CheckOf(res.errs[1].cls)

\* the manifest could be read: the directory and the file exist and parse
Readable(a) == a.isdir /\ a.mfile = "ok"

AsciiLetters == {"a"}

AsciiDigits == {"1"}

\* ^[A-Za-z_][A-Za-z0-9_]*$
MatchesDomainPattern(s) ==
    /\ Len(s) > 0
    /\ s[1] \in AsciiLetters \cup {"_"}
    /\ \A k \in 2..Len(s) : s[k] \in AsciiLetters \cup AsciiDigits \cup {"_"}

Pad(rel, n) == [k \in 1..n |-> IF k <= Len(rel) THEN rel[k] ELSE 0]

\* version a is greater than version b, component by component
Exceeds(a, b) ==
    LET n == IF Len(a) > Len(b) THEN Len(a) ELSE Len(b)
    IN  \E k \in 1..n :
            /\ Pad(a, n)[k] > Pad(b, n)[k]
            /\ \A j \in 1..(k - 1) : Pad(a, n)[j] = Pad(b, n)[j]

\* does the named check fail on the directory, taken on its own
FailsCheck(c, a) ==
    CASE c = "directory" -> ~a.isdir
      [] c = "manifest" -> a.mfile = "missing"
      [] c = "parse" -> a.mfile = "badjson"
      [] c = "fields" -> RequiredSet \ a.manifest.has # {}
      [] c = "domain" ->
            ~(a.manifest.domain.k = "str" /\ IsIdentifier(a.manifest.domain.s))
      [] c = "implementations" ->
            IF a.manifest.implementations.k = "dict"
            THEN \E k \in 1..Len(a.manifest.implementations.entries) :
                    a.manifest.implementations.entries[k].filename \notin a.files
            ELSE "integration.py" \notin a.files
      [] OTHER -> FALSE

\* C6: the error printed for an addon is that of the earliest failing check
\* in the order directory, manifest, parse, fields, domain, implementations,
\* core version; a manifest missing any of domain/name/version gives exactly
\* one MissingField error, for the first missing field in that order.
C6_EarliestFailingCheck ==
    Returned =>
        /\ \A k \in 1..Len(res.errs) :
              /\ FailsCheck(CheckOf(res.errs[k].cls), addon) \/ CheckOf(res.errs[k].cls) = "core_version"
              /\ \A c \in 1..Len(AllChecks) :
                    (AllChecks[c] = CheckOf(res.errs[k].cls)) =>
                        \A b \in 1..(c - 1) : ~FailsCheck(AllChecks[b], addon)
        /\ (Readable(addon) /\ RequiredSet \ addon.manifest.has # {}) =>
              /\ Len(res.errs) = 1
              /\ res.errs[1].cls = "MissingField"
              /\ res.errs[1].field = FirstMissing(<<"domain", "name", "version">>, addon.manifest.has)

\* the invocation got as far as the implementations check
ReachedImplementations == Returned /\ Len(res.checks) >= 6

PassedImplementations == Returned /\ Len(res.checks) = 7

\* C7: for an addon that passed the earlier checks: a non-empty mapping
\* fails with MissingImplementationFile when an entry names a file that is
\* not in the directory and passes when all the files exist; a value that is
\* present and not a mapping does not pass; an absent or empty value passes
\* exactly when integration.py exists, else MissingImplementations.
C7_ImplementationResolution ==
    ReachedImplementations =>
        LET im == addon.manifest.implementations
            es == im.entries
        IN  /\ (im.k = "dict" /\ \E k \in 1..Len(es) : es[k].isstr /\ es[k].filename \notin addon.files)
                  => (res.ret = "False" /\ res.errs = <<error("MissingImplementationFile", "file_path", res.errs[1].field)>>)
            /\ (im.k = "dict" /\ \A k \in 1..Len(es) : es[k].isstr /\ es[k].filename \in addon.files)
                  => PassedImplementations
            /\ im.k = "nondict" => res.ret # "True"
            /\ im.k \in {"absent", "emptydict"} =>
                  /\ PassedImplementations <=> "integration.py" \in addon.files
                  /\ ~PassedImplementations =>
                        (res.ret = "False" /\ res.errs = <<error("MissingImplementations", "manifest_path", "")>>)

HasError(cls) == \E k \in 1..Len(res.errs) : res.errs[k].cls = cls

\* C8: for an addon that passed the earlier checks: a version error is only
\* printed when min_core_version and the core version are both present and
\* the comparison is available; when both parse, the addon fails with
\* IncompatibleCoreVersion exactly when the minimum exceeds the core
\* version and passes otherwise; without a core version, without a
\* min_core_version or without the comparison the addon passes.
C8_CoreVersionCheck ==
    PassedImplementations =>
        LET mv == addon.manifest.min_core_version
            present == mv.k # "absent" /\ core_ver.k # "absent" /\ version
            bothParse == mv.k = "str" /\ core_ver.k = "str"
                           /\ VersionParse(mv.s).ok /\ VersionParse(core_ver.s).ok
            exceeds == Exceeds(VersionParse(mv.s).release, VersionParse(core_ver.s).release)
        IN  /\ (HasError("IncompatibleCoreVersion") \/ HasError("VersionParseError")) => present
            /\ HasError("IncompatibleCoreVersion") <=> (present /\ bothParse /\ exceeds)
            /\ HasError("IncompatibleCoreVersion") => res.ret = "False"
            /\ (present /\ bothParse /\ ~exceeds) => (res.ret = "True" /\ res.errs = <<>>)
            /\ ~present => (res.ret = "True" /\ res.errs = <<>>)

\* a comparison found the minimum above the core version, with a minimum
\* whose text differs from the core version's in length
C8_Witness ==
    /\ PassedImplementations
    /\ HasError("IncompatibleCoreVersion")
    /\ res.ret = "False"
    /\ Len(addon.manifest.min_core_version.s) > Len(core_ver.s)

\* C9: when the manifest has a min_core_version and a core version is
\* supplied (and the comparison is available), and one of the two strings,
\* the empty string included, does not parse, the invocation prints a
\* VersionParseError and returns False.
C9_ParseFailureNeverSkipped ==
    PassedImplementations =>
        LET mv == addon.manifest.min_core_version
        IN  (/\ version
             /\ mv.k = "str"
             /\ core_ver.k = "str"
             /\ ~VersionParse(mv.s).ok \/ ~VersionParse(core_ver.s).ok)
            => (res.ret = "False" /\ res.errs = <<error("VersionParseError", "manifest_path", "")>>)

\* C10: a domain string passes the syntax check exactly when it matches
\* ^[A-Za-z_][A-Za-z0-9_]*$; any other string fails with InvalidDomain.
C10_DomainSyntax ==
    (Returned /\ Len(res.checks) >= 5 /\ addon.manifest.domain.k = "str") =>
        /\ Len(res.checks) >= 6 <=> MatchesDomainPattern(addon.manifest.domain.s)
        /\ ~MatchesDomainPattern(addon.manifest.domain.s) =>
              (res.ret = "False" /\ res.errs = <<error("InvalidDomain", "manifest_path", "")>>)

====
